---- MODULE Spec2Model ----
(***************************************************************************)
(* Batch generation pipeline of BentoPlannerClean/scripts.                 *)
(*                                                                         *)
(* The model follows gen_simple.py: the retry loop of                      *)
(* generate_simple_main_dishes_batch, the batch loop of main and the       *)
(* read-merge-write of PresetMainDishes.json.  The batch loops of          *)
(* generate_main_dishes.py, generate_preset_recipes.py and                 *)
(* generate_side_dishes.py are the same code with other names.             *)
(***************************************************************************)
EXTENDS Integers, Sequences, FiniteSets

VARIABLES
    total_count,        \* TOTAL_COUNT / the total_count parameter of the run
    batch_limit,        \* BATCH_SIZE of the run
    pc,                 \* position of the process
    batch_num,          \* loop variable of the batch loop
    count,              \* parameter count of the batch generator (batch_size of main)
    arg_names,          \* parameter existing_names of the batch generator
    attempt,            \* loop variable of the retry loop
    response_text,      \* local response_text of the batch generator
    events,             \* history: what the generator call in progress did
    batch_main_dishes,  \* value the batch generator returned
    all_main_dishes,    \* accumulator of main
    existing_names,     \* names accumulator of main
    requested,          \* history: count of every generator call of the run
    got,                \* history: length of every generator result of the run
    found,              \* PresetMainDishes.json as main finds it at the read
    all_categories,     \* document held by main after the read
    output,             \* PresetMainDishes.json as main has written it
    existing_methods,   \* side dishes: the count of each cooking method
    prompt_names,       \* side dishes: the names written into the prompt
    batches_got,        \* history: the result of each call of the batch generator
    client_calls,       \* history: how many times the client was invoked
    pauses,             \* history: how many times main slept between batches
    OPENAI_API_KEY,     \* the environment variable as the script reads it
    exit_code,          \* the exit status of the process as text, "running" before
    ext_in,             \* a text handed to the extraction on its own
    ext_out             \* history: the results of extracting it, then the result

vars == <<total_count, batch_limit, pc, batch_num, count, arg_names, attempt,
          response_text, events, batch_main_dishes, all_main_dishes,
          existing_names, requested, got, found, all_categories, output,
          existing_methods, prompt_names, batches_got, client_calls, pauses,
          OPENAI_API_KEY, exit_code, ext_in, ext_out>>

\* the variables of the side-dish script alone
sidevars == <<existing_methods, prompt_names>>

\* the variables of the extraction taken on its own
extvars == <<ext_in, ext_out>>

-----------------------------------------------------------------------------
(* Bounds of the model *)

\* largest total_count of the small runs
MaxTotal == 2
\* largest BATCH_SIZE of the small runs
MaxBatch == 2
\* longest items array a response carries
MaxItems == 6
\* most blocks of a text handed to the extraction on its own
MaxBlocks == 5
\* longest items array a side-dish response carries
MaxSideItems == 21
\* the larger total of the side-dish runs
SideTotal == 11
\* total_count of the end-to-end scenario (with BATCH_SIZE)
ScenarioTotal == 12

(* Program constants *)
BATCH_SIZE == 5
max_retries == 3
\* existing_names[-20:]
Window == 20

-----------------------------------------------------------------------------
(* Values *)

Min(a, b) == IF a <= b THEN a ELSE b

RECURSIVE Sum(_)
Sum(s) == IF s = <<>> THEN 0 ELSE Head(s) + Sum(Tail(s))

IsPrefix(s, t) == Len(s) <= Len(t) /\ SubSeq(t, 1, Len(s)) = s

\* The dishes a backend may return: two named ones and one without "name".
Dishes == << [name |-> "a", calories |-> 1],
             [name |-> "b", calories |-> 2],
             [calories |-> 3] >>

\* An items array of n dishes, cycling through Dishes.
Arr(n) == [i \in 1..n |-> Dishes[((i - 1) % Len(Dishes)) + 1]]

Arrays == {Arr(n) : n \in 0..MaxItems}

-----------------------------------------------------------------------------
\* Response texts.  A text is a sequence of tokens: "tick" is one backtick,
\* "json" the word json, "ws" a whitespace character, "x" any other
\* character, and a JSON document is one token carrying its parsed value:
\* "obj" an object with the items key, "nokey" an object without it,
\* "scalar" a JSON value that is no object (an array, a number).

Ch(c) == [t |-> c, v |-> <<>>]
Fence == <<Ch("tick"), Ch("tick"), Ch("tick")>>
JsonFence == Fence \o <<Ch("json")>>
WS == <<Ch("ws")>>
Prose == <<Ch("x")>>

Payloads == {[t |-> "obj", v |-> a] : a \in Arrays}
              \cup {[t |-> "nokey", v |-> <<>>], [t |-> "scalar", v |-> <<>>]}

\* the ways a backend wraps the document p
Wrapped(p) ==
    { WS \o <<p>> \o WS,
      JsonFence \o WS \o <<p>> \o WS \o Fence,
      Fence \o WS \o <<p>> \o WS \o Fence,
      Prose \o JsonFence \o <<p>> \o Fence \o Prose,
      JsonFence \o WS \o <<p>>,
      Fence \o Prose \o Fence \o WS \o JsonFence \o <<p>> \o Fence,
      Prose \o <<p>>,
      <<p>> \o Fence }

\* The response texts of the model: every document bare, one document in
\* every wrapping, and texts without a document.
Texts == {<<p>> : p \in Payloads}
           \cup Wrapped([t |-> "obj", v |-> Arr(2)])
           \cup {<<>>, Prose, Fence}

\* str.strip()
RECURSIVE LStrip(_)
LStrip(s) == IF s # <<>> /\ Head(s).t = "ws" THEN LStrip(Tail(s)) ELSE s

RECURSIVE RStrip(_)
RStrip(s) == IF s # <<>> /\ s[Len(s)].t = "ws"
             THEN RStrip(SubSeq(s, 1, Len(s) - 1)) ELSE s

Strip(s) == RStrip(LStrip(s))

\* index of the first occurrence of sep in s, 0 when there is none
Find(s, sep) ==
    LET hits == {i \in 1..(Len(s) - Len(sep) + 1) :
                    SubSeq(s, i, i + Len(sep) - 1) = sep}
    IN IF hits = {} THEN 0 ELSE CHOOSE i \in hits : \A j \in hits : i <= j

\* sep in s
Contains(s, sep) == Find(s, sep) # 0

\* s.split(sep)[0]
SplitFirst(s, sep) ==
    IF Contains(s, sep) THEN SubSeq(s, 1, Find(s, sep) - 1) ELSE s

\* s.split(sep)[1], for s that contains sep
SplitSecond(s, sep) ==
    SplitFirst(SubSeq(s, Find(s, sep) + Len(sep), Len(s)), sep)

\* (variant) the text after the opening fence is not cut at the closing fence
ExtractNoClose(text) ==
    IF Contains(text, JsonFence)
    THEN Strip(SplitSecond(text, JsonFence))
    ELSE IF Contains(text, Fence)
         THEN Strip(SplitSecond(text, Fence))
         ELSE text

\* the extraction of the JSON text from the stripped response
Extract(text) ==
    IF Contains(text, JsonFence)
    THEN Strip(SplitFirst(SplitSecond(text, JsonFence), Fence))
    ELSE IF Contains(text, Fence)
         THEN Strip(SplitFirst(SplitSecond(text, Fence), Fence))
         ELSE text

IsJson(tok) == tok.t \in {"obj", "nokey", "scalar"}

\* json.loads succeeds on text: one JSON document, whitespace around it allowed
Parses(text) == Len(Strip(text)) = 1 /\ IsJson(Strip(text)[1])

\* json.loads(text), for text that parses
JsonLoads(text) == Strip(text)[1]

\* data.get("mainDishes", []) is defined: data is a JSON object
HasGet(data) == data.t \in {"obj", "nokey"}

\* data.get("mainDishes", [])
GetItems(data) == IF data.t = "obj" THEN data.v ELSE <<>>

\* (variant) the items cut down to the count asked
ReturnedTruncated(main_dishes, n) ==
    SubSeq(main_dishes, 1, Min(n, Len(main_dishes)))

\* what the batch generator returns for the parsed items and the count asked
Returned(main_dishes, n) == main_dishes

\* A client invocation either raises or returns a response text.
ClientOutcomes == {[raised |-> TRUE, content |-> <<>>]}
                    \cup {[raised |-> FALSE, content |-> t] : t \in Texts}

\* response_text after the extraction, for a client call that returned
ExtractedText(out) == Extract(Strip(out.content))

\* One pass of the try block: "return" with the items, "decode" for
\* json.JSONDecodeError, "error" for any other Exception.
TryBlock(out, n) ==
    IF out.raised THEN [kind |-> "error", items |-> <<>>]
    ELSE IF ~Parses(ExtractedText(out)) THEN [kind |-> "decode", items |-> <<>>]
         ELSE IF ~HasGet(JsonLoads(ExtractedText(out)))
              THEN [kind |-> "error", items |-> <<>>]
              ELSE [kind |-> "return",
                    items |-> Returned(GetItems(JsonLoads(ExtractedText(out))), n)]

-----------------------------------------------------------------------------
(* The batch loop of main *)

\* (variant) one batch more than the total asks for
BatchesPlusOne(total, size) == (total \div size) + 1

\* (variant) the number of batches rounded down
BatchesFloor(total, size) == total \div size

\* batches = (TOTAL_COUNT + BATCH_SIZE - 1) // BATCH_SIZE
Batches(total, size) == (total + size - 1) \div size

\* (variant) every batch asks for BATCH_SIZE
BatchCountFull(size, total, collected) == size

\* (variant) remaining is not reduced by what was collected
BatchCountStale(size, total, collected) == Min(size, total)

\* remaining = TOTAL_COUNT - len(all_main_dishes); min(BATCH_SIZE, remaining)
BatchCount(size, total, collected) == Min(size, total - collected)

\* md.get("name", "")
NameOf(md) == IF "name" \in DOMAIN md THEN md.name ELSE ""

\* [md.get("name", "") for md in batch_main_dishes]
NamesOf(batch) == [i \in 1..Len(batch) |-> NameOf(batch[i])]

\* (variant) the new batch is put in front of what was collected
ExtendedPrepend(all, batch) == batch \o all

\* all_main_dishes after the if statement on the batch result
Extended(all, batch) == IF batch # <<>> THEN all \o batch ELSE all

\* (variant) the names are never extended
ExtendedNamesNever(names, batch) == names

\* existing_names after the if statement on the batch result
ExtendedNames(names, batch) ==
    IF batch # <<>> THEN names \o NamesOf(batch) ELSE names

\* (variant) a failed batch goes on to the next one without the pause
AfterBatchSkipFailed(batch) == IF batch = <<>> THEN "loop" ELSE "sleep1"

\* main: the time.sleep(1) stands behind the if/else, for either branch
AfterBatch(batch) == "sleep1"

\* (variant) the retry loop gives up one attempt early
AfterFailureEarly(att) == IF att < max_retries - 2 THEN "sleep3" ELSE "returned"

\* (variant) the last attempt re-raises its exception
AfterFailureRaise(att) == IF att < max_retries - 1 THEN "sleep3" ELSE "crashed"

\* where an except clause of the retry loop goes on attempt number att
AfterFailure(att) == IF att < max_retries - 1 THEN "sleep3" ELSE "returned"

-----------------------------------------------------------------------------
(* PresetMainDishes.json *)

Keys == {"omakase", "hearty", "fishMain", "simple"}

\* (variant) the new document has the key of this script only
EmptyDocumentOneKey == [k \in {"simple"} |-> <<>>]

\* the document main creates when the file is not found
EmptyDocument == [k \in Keys |-> <<>>]

NoDocument == [k \in {} |-> <<>>]

X == Dishes[2]
Y == Dishes[1]

Documents ==
    { [k \in Keys |-> IF k = "omakase" THEN <<X>> ELSE <<>>],
      [k \in Keys |-> IF k = "simple" THEN <<Y, X>> ELSE <<X>>],
      [k \in {"omakase", "extra"} |-> <<Y>>] }

\* what open and json.load may find at input_path
Files == {[kind |-> "object", doc |-> d] : d \in Documents}
           \cup {[kind |-> k, doc |-> NoDocument] :
                    k \in {"missing", "unreadable", "invalid"}}

\* the file before main has opened it
Unread == [kind |-> "unread", doc |-> NoDocument]

\* The try statement around the read: the loaded document, the new document
\* for FileNotFoundError, and no result for an exception it does not catch.
ReadResult(f) ==
    IF f.kind = "object" THEN [ok |-> TRUE, doc |-> f.doc]
    ELSE IF f.kind = "missing" THEN [ok |-> TRUE, doc |-> EmptyDocument]
         ELSE [ok |-> FALSE, doc |-> NoDocument]

\* (variant) the dishes are added behind what the key held
MergedAppend(doc, dishes) ==
    [k \in DOMAIN doc \cup {"simple"} |->
        IF k = "simple"
        THEN (IF k \in DOMAIN doc THEN doc[k] ELSE <<>>) \o dishes
        ELSE doc[k]]

\* (variant) the document is rebuilt from the known keys
MergedFresh(doc, dishes) ==
    [k \in Keys |-> IF k = "simple" THEN dishes ELSE <<>>]

\* all_categories["simple"] = all_main_dishes
Merged(doc, dishes) ==
    [k \in DOMAIN doc \cup {"simple"} |-> IF k = "simple" THEN dishes ELSE doc[k]]

-----------------------------------------------------------------------------
(* The state machine *)

\* what os.environ.get("OPENAI_API_KEY") gives: None, the empty string, a key
Environments == {"None", "", "sk"}

\* (variant) a key is never found missing
KeyMissingNever(key) == key \notin Environments

\* not OPENAI_API_KEY
KeyMissing(key) == key \in {"None", ""}

Configs == ((1..MaxTotal) \X (1..MaxBatch)) \cup {<<ScenarioTotal, BATCH_SIZE>>}

Init ==
    /\ \E c \in Configs : total_count = c[1] /\ batch_limit = c[2]
    /\ OPENAI_API_KEY \in Environments
    /\ exit_code = "running"
    /\ existing_methods = <<>>
    /\ prompt_names = <<>>
    /\ batches_got = <<>>
    /\ client_calls = 0
    /\ pauses = 0
    /\ pc = "startup"
    /\ batch_num = 0
    /\ count = 0
    /\ arg_names = <<>>
    /\ attempt = 0
    /\ response_text = <<>>
    /\ events = <<>>
    /\ batch_main_dishes = <<>>
    /\ all_main_dishes = <<>>
    /\ existing_names = <<>>
    /\ requested = <<>>
    /\ got = <<>>
    /\ found = Unread
    /\ all_categories = NoDocument
    /\ output = NoDocument
    /\ ext_in = <<>>
    /\ ext_out = <<>>

\* module level: exit(1) when the key is not set, else the client is built and
\* main is called
Startup ==
    /\ pc = "startup"
    /\ IF KeyMissing(OPENAI_API_KEY)
       THEN /\ pc' = "exit"
            /\ exit_code' = "1"
       ELSE /\ pc' = "loop"
            /\ UNCHANGED exit_code
    /\ UNCHANGED <<extvars, sidevars, batches_got, client_calls, pauses,
                   OPENAI_API_KEY, total_count, batch_limit, batch_num, count,
                   arg_names, attempt, response_text, events,
                   batch_main_dishes, all_main_dishes, existing_names,
                   requested, got, found, all_categories, output>>

\* main: the head of the batch loop up to the call of the batch generator
BatchStart ==
    /\ pc = "loop"
    /\ batch_num < Batches(total_count, batch_limit)
    /\ count' = BatchCount(batch_limit, total_count, Len(all_main_dishes))
    /\ arg_names' = existing_names
    /\ attempt' = 0
    /\ requested' = Append(requested, count')
    /\ pc' = "attempt"
    /\ UNCHANGED <<extvars, sidevars, batches_got, client_calls, pauses,
                   OPENAI_API_KEY, exit_code, total_count, batch_limit,
                   batch_num, response_text, events, batch_main_dishes,
                   all_main_dishes, existing_names, got, found,
                   all_categories, output>>

\* the event an attempt leaves in the history
EventOf(out, kind) ==
    IF out.raised THEN "raise" ELSE IF kind = "return" THEN "ok" ELSE "fail"

\* generate_simple_main_dishes_batch: one iteration of the retry loop, up to
\* its return or the sleep of its except clause
AttemptStep(outcomes) ==
    /\ pc = "attempt"
    /\ attempt < max_retries
    /\ \E out \in outcomes :
          LET r == TryBlock(out, count)
              next == IF r.kind = "return" THEN "returned" ELSE AfterFailure(attempt)
          IN /\ response_text' = IF out.raised THEN response_text
                                 ELSE ExtractedText(out)
             /\ events' = Append(events, EventOf(out, r.kind))
             /\ pc' = next
             /\ IF next = "returned"
                THEN /\ batch_main_dishes' = r.items
                     /\ got' = Append(got, Len(r.items))
                     /\ batches_got' = Append(batches_got, r.items)
                ELSE UNCHANGED <<batch_main_dishes, got, batches_got>>
    /\ client_calls' = client_calls + 1
    /\ UNCHANGED <<extvars, sidevars, pauses, OPENAI_API_KEY, exit_code,
                   total_count, batch_limit, batch_num, count, arg_names,
                   attempt, all_main_dishes, existing_names, requested, found,
                   all_categories, output>>

Attempt == AttemptStep(ClientOutcomes)

\* generate_simple_main_dishes_batch: time.sleep(3) and continue
RetrySleep ==
    /\ pc = "sleep3"
    /\ events' = Append(events, "sleep")
    /\ attempt' = attempt + 1
    /\ pc' = "attempt"
    /\ UNCHANGED <<extvars, sidevars, batches_got, client_calls, pauses,
                   OPENAI_API_KEY, exit_code, total_count, batch_limit,
                   batch_num, count, arg_names, response_text,
                   batch_main_dishes, all_main_dishes, existing_names,
                   requested, got, found, all_categories, output>>

\* main: the if statement on the batch result; the frame of the generator
\* call is gone
Accumulate ==
    /\ pc = "returned"
    /\ all_main_dishes' = Extended(all_main_dishes, batch_main_dishes)
    /\ existing_names' = ExtendedNames(existing_names, batch_main_dishes)
    /\ response_text' = <<>>
    /\ events' = <<>>
    /\ pc' = AfterBatch(batch_main_dishes)
    /\ UNCHANGED <<extvars, sidevars, batches_got, client_calls, pauses,
                   OPENAI_API_KEY, exit_code, total_count, batch_limit,
                   batch_num, count, arg_names, attempt, batch_main_dishes,
                   requested, got, found, all_categories, output>>

\* main: time.sleep(1) and the next iteration of the batch loop
BatchSleep ==
    /\ pc = "sleep1"
    /\ batch_num' = batch_num + 1
    /\ pauses' = pauses + 1
    /\ pc' = "loop"
    /\ UNCHANGED <<extvars, sidevars, batches_got, client_calls,
                   OPENAI_API_KEY, exit_code, total_count, batch_limit, count,
                   arg_names, attempt, response_text, events,
                   batch_main_dishes, all_main_dishes, existing_names,
                   requested, got, found, all_categories, output>>

\* main: the batch loop is over; read PresetMainDishes.json
ReadExisting ==
    /\ pc = "loop"
    /\ batch_num >= Batches(total_count, batch_limit)
    /\ \E f \in Files :
          /\ found' = f
          /\ IF ReadResult(f).ok
             THEN /\ all_categories' = ReadResult(f).doc
                  /\ pc' = "write"
             ELSE /\ pc' = "crashed"
                  /\ UNCHANGED all_categories
    /\ exit_code' = IF pc' = "crashed" THEN "1" ELSE exit_code
    /\ UNCHANGED <<extvars, sidevars, batches_got, client_calls, pauses,
                   OPENAI_API_KEY, total_count, batch_limit, batch_num, count,
                   arg_names, attempt, response_text, events,
                   batch_main_dishes, all_main_dishes, existing_names,
                   requested, got, output>>

\* main: replace the key "simple" and write the file; open may raise
MergeWrite ==
    /\ pc = "write"
    /\ all_categories' = Merged(all_categories, all_main_dishes)
    /\ \/ /\ output' = all_categories'
          /\ pc' = "done"
       \/ /\ pc' = "crashed"
          /\ UNCHANGED output
    /\ exit_code' = IF pc' = "crashed" THEN "1" ELSE "0"
    /\ UNCHANGED <<extvars, sidevars, batches_got, client_calls, pauses,
                   OPENAI_API_KEY, total_count, batch_limit, batch_num, count,
                   arg_names, attempt, response_text, events,
                   batch_main_dishes, all_main_dishes, existing_names,
                   requested, got, found>>

Next ==
    \/ Startup
    \/ BatchStart
    \/ Attempt
    \/ RetrySleep
    \/ Accumulate
    \/ BatchSleep
    \/ ReadExisting
    \/ MergeWrite

Spec == Init /\ [][Next]_vars

\* every statement that can run does run: the client returns or raises, the
\* sleeps end, the file operations return or raise
-----------------------------------------------------------------------------
(* generate_side_dishes.py: the same loops with the window of names and the
   counts of the cooking methods *)

\* COOKING_METHODS, in Latin letters
COOKING_METHODS ==
    {"kinpira", "nimono", "aemono", "itamemono", "yakimono",
     "agemono", "mushimono", "tsukemono", "sarada", "marine"}

\* the side dishes a response may carry: two with a method of the list, one
\* with another method, one without a method, one without a name
SideDishes == << [name |-> "a", cookingMethod |-> "nimono"],
                 [name |-> "b", cookingMethod |-> "sarada"],
                 [name |-> "c", cookingMethod |-> "guriru"],
                 [name |-> "d"],
                 [cookingMethod |-> "nimono"] >>

SideArr(n) == [i \in 1..n |-> SideDishes[((i - 1) % Len(SideDishes)) + 1]]

SideArrays == {SideArr(n) : n \in {0, 1, BATCH_SIZE, MaxSideItems}}

SideTexts == {<<[t |-> "obj", v |-> a]>> : a \in SideArrays}
               \cup {JsonFence \o WS \o <<[t |-> "obj", v |-> SideArr(1)]>>
                        \o WS \o Fence,
                     Prose}

SideClientOutcomes == {[raised |-> TRUE, content |-> <<>>]}
                        \cup {[raised |-> FALSE, content |-> t] : t \in SideTexts}

\* (variant) every name is written into the prompt
LastNAll(names, w) == names

\* existing_names[-20:]
LastN(names, w) ==
    SubSeq(names, IF Len(names) > w THEN Len(names) - w + 1 ELSE 1, Len(names))

\* sd.get("cookingMethod", "sonota")
MethodOf(sd) ==
    IF "cookingMethod" \in DOMAIN sd THEN sd.cookingMethod ELSE "sonota"

\* (variant) a method outside the list gets a count of its own
CountedOneAny(methods, sd) ==
    [method \in DOMAIN methods \cup {MethodOf(sd)} |->
        (IF method \in DOMAIN methods THEN methods[method] ELSE 0)
            + (IF method = MethodOf(sd) THEN 1 ELSE 0)]

\* if method in existing_methods: existing_methods[method] += 1
CountedOne(methods, sd) ==
    IF MethodOf(sd) \in DOMAIN methods
    THEN [methods EXCEPT ![MethodOf(sd)] = @ + 1]
    ELSE methods

\* for sd in batch_side_dishes: the counts after the items up to the k-th
RECURSIVE CountedUpTo(_, _, _)
CountedUpTo(methods, batch, k) ==
    IF k = 0 THEN methods
    ELSE CountedOne(CountedUpTo(methods, batch, k - 1), batch[k])

\* (variant) only the first item of a batch is counted
CountedFirst(methods, batch) ==
    IF batch # <<>> THEN CountedOne(methods, batch[1]) ELSE methods

\* existing_methods after the if statement on the batch result
Counted(methods, batch) ==
    IF batch # <<>> THEN CountedUpTo(methods, batch, Len(batch)) ELSE methods

\* (variant) a failed batch leaves an empty name behind
SideNamesPlaceholder(names, batch) ==
    IF batch # <<>> THEN names \o NamesOf(batch) ELSE Append(names, "")

\* existing_names of generate_all_side_dishes after the if statement
SideNames(names, batch) ==
    IF batch # <<>> THEN names \o NamesOf(batch) ELSE names

SideConfigs == {1, SideTotal} \X {BATCH_SIZE}

SideInit ==
    /\ \E c \in SideConfigs : total_count = c[1] /\ batch_limit = c[2]
    /\ OPENAI_API_KEY \in Environments
    /\ exit_code = "running"
    /\ existing_methods = [method \in COOKING_METHODS |-> 0]
    /\ prompt_names = <<>>
    /\ batches_got = <<>>
    /\ client_calls = 0
    /\ pauses = 0
    /\ pc = "startup"
    /\ batch_num = 0
    /\ count = 0
    /\ arg_names = <<>>
    /\ attempt = 0
    /\ response_text = <<>>
    /\ events = <<>>
    /\ batch_main_dishes = <<>>
    /\ all_main_dishes = <<>>
    /\ existing_names = <<>>
    /\ requested = <<>>
    /\ got = <<>>
    /\ found = Unread
    /\ all_categories = NoDocument
    /\ output = NoDocument
    /\ ext_in = <<>>
    /\ ext_out = <<>>

\* generate_all_side_dishes: the head of the batch loop, the call of the batch
\* generator and the prompt it builds
SideBatchStart ==
    /\ pc = "loop"
    /\ batch_num < Batches(total_count, batch_limit)
    /\ count' = BatchCount(batch_limit, total_count, Len(all_main_dishes))
    /\ arg_names' = existing_names
    /\ prompt_names' = LastN(arg_names', Window)
    /\ attempt' = 0
    /\ requested' = Append(requested, count')
    /\ pc' = "attempt"
    /\ UNCHANGED <<extvars, existing_methods, batches_got, client_calls,
                   pauses, OPENAI_API_KEY, exit_code, total_count,
                   batch_limit, batch_num, response_text, events,
                   batch_main_dishes, all_main_dishes, existing_names, got,
                   found, all_categories, output>>

\* generate_side_dishes_batch: one iteration of the retry loop
SideAttempt == AttemptStep(SideClientOutcomes)

\* generate_all_side_dishes: the if statement on the batch result
SideAccumulate ==
    /\ pc = "returned"
    /\ all_main_dishes' = Extended(all_main_dishes, batch_main_dishes)
    /\ existing_names' = SideNames(existing_names, batch_main_dishes)
    /\ existing_methods' = Counted(existing_methods, batch_main_dishes)
    /\ response_text' = <<>>
    /\ events' = <<>>
    /\ pc' = AfterBatch(batch_main_dishes)
    /\ UNCHANGED <<extvars, prompt_names, batches_got, client_calls, pauses,
                   OPENAI_API_KEY, exit_code, total_count, batch_limit,
                   batch_num, count, arg_names, attempt, batch_main_dishes,
                   requested, got, found, all_categories, output>>

\* main: the batch loop is over; write PresetSideDishes.json; open may raise
SideWrite ==
    /\ pc = "loop"
    /\ batch_num >= Batches(total_count, batch_limit)
    /\ \/ /\ output' = [sideDishes |-> all_main_dishes]
          /\ pc' = "done"
          /\ exit_code' = "0"
       \/ /\ pc' = "crashed"
          /\ exit_code' = "1"
          /\ UNCHANGED output
    /\ UNCHANGED <<extvars, sidevars, batches_got, client_calls, pauses,
                   OPENAI_API_KEY, total_count, batch_limit, batch_num, count,
                   arg_names, attempt, response_text, events,
                   batch_main_dishes, all_main_dishes, existing_names,
                   requested, got, found, all_categories>>

SideNext ==
    \/ Startup
    \/ SideBatchStart
    \/ SideAttempt
    \/ RetrySleep
    \/ SideAccumulate
    \/ BatchSleep
    \/ SideWrite

SideSpec == SideInit /\ [][SideNext]_vars

-----------------------------------------------------------------------------
(* The runs under fairness *)

FairInit == Init /\ total_count <= MaxTotal

FairSpec == FairInit /\ [][Next]_vars /\ WF_vars(Next)

-----------------------------------------------------------------------------
(* The extraction taken on its own, as a function of any text *)

Doc == [t |-> "obj", v |-> Arr(1)]

Blocks == {Fence, JsonFence, WS, Prose, <<Doc>>, <<Ch("tick")>>}

\* the texts made of at most n blocks
RECURSIVE TextsUpTo(_)
TextsUpTo(n) ==
    IF n = 0 THEN {<<>>}
    ELSE LET shorter == TextsUpTo(n - 1)
         IN shorter \cup {t \o b : t \in shorter, b \in Blocks}

\* no run is under way
Idle ==
    /\ total_count = 0
    /\ batch_limit = 0
    /\ pc = "idle"
    /\ batch_num = 0
    /\ count = 0
    /\ arg_names = <<>>
    /\ attempt = 0
    /\ response_text = <<>>
    /\ events = <<>>
    /\ batch_main_dishes = <<>>
    /\ all_main_dishes = <<>>
    /\ existing_names = <<>>
    /\ requested = <<>>
    /\ got = <<>>
    /\ found = Unread
    /\ all_categories = NoDocument
    /\ output = NoDocument
    /\ OPENAI_API_KEY = "sk"
    /\ exit_code = "running"
    /\ existing_methods = <<>>
    /\ prompt_names = <<>>
    /\ batches_got = <<>>
    /\ client_calls = 0
    /\ pauses = 0

mainvars == <<total_count, batch_limit, pc, batch_num, count, arg_names,
              attempt, response_text, events, batch_main_dishes,
              all_main_dishes, existing_names, requested, got, found,
              all_categories, output, batches_got, client_calls, pauses,
              OPENAI_API_KEY, exit_code, existing_methods, prompt_names>>

ExtractInit ==
    /\ Idle
    /\ ext_in \in TextsUpTo(MaxBlocks)
    /\ ext_out = <<>>

\* the if/elif on the fences, applied to the text
ExtractOnce ==
    /\ ext_out = <<>>
    /\ ext_out' = <<Extract(ext_in)>>
    /\ UNCHANGED <<ext_in, mainvars>>

\* the if/elif on the fences, applied to its own result
ExtractAgain ==
    /\ Len(ext_out) = 1
    /\ ext_out' = Append(ext_out, Extract(ext_out[1]))
    /\ UNCHANGED <<ext_in, mainvars>>

ExtractNext ==
    \/ ExtractOnce
    \/ ExtractAgain

ExtractSpec == ExtractInit /\ [][ExtractNext]_vars

-----------------------------------------------------------------------------
(* Properties *)

\* the least n with n * b >= a
CeilDiv(a, b) == CHOOSE n \in 0..a : n * b >= a /\ (n - 1) * b < a

\* the batch loop of main is over
RunOver == pc \in {"write", "done", "crashed"}

\* no batch so far returned more items than were asked of it
NoneLong == \A i \in 1..Len(got) : got[i] <= requested[i]

\* C1 (as claimed): when the batch loop is over, the counts asked of the
\* batch generator add up to total_count, whatever the batches returned.
C1_SumAnyOutcome == RunOver => Sum(requested) = total_count

\* C1 (amended): when every batch returned exactly the count asked of it, the
\* counts asked add up to total_count; total_count 12 with BATCH_SIZE 5 asks
\* for 5, 5, 2 in that order.
C1_SumWhenExact ==
    (RunOver /\ got = requested) =>
        /\ Sum(requested) = total_count
        /\ (total_count = 12 /\ batch_limit = 5) => requested = <<5, 5, 2>>

C1_Witness ==
    /\ pc = "done"
    /\ total_count = 12 /\ batch_limit = 5
    /\ got = requested
    /\ requested = <<5, 5, 2>>

\* every attempt of the generator call in progress raised in the client
OnlyRaises == \A i \in 1..Len(events) : events[i] \in {"raise", "sleep"}

ThreeRaises == <<"raise", "sleep", "raise", "sleep", "raise">>

\* C2: a generator call whose client invocation raises on every attempt makes
\* exactly 3 invocations with a pause between consecutive ones, none after
\* the third, and then returns the empty result instead of raising.
C2_AlwaysRaising ==
    /\ (pc = "returned" /\ OnlyRaises) =>
           events = ThreeRaises /\ batch_main_dishes = <<>>
    /\ events = ThreeRaises => pc = "returned"
    /\ (pc \in {"attempt", "sleep3"} /\ OnlyRaises) =>
           /\ Len(events) < Len(ThreeRaises)
           /\ IsPrefix(events, ThreeRaises)
           /\ (pc = "attempt") = (Len(events) % 2 = 0)

C2_Witness ==
    /\ pc = "returned"
    /\ events = ThreeRaises
    /\ batch_main_dishes = <<>>

\* C3: no failure of an attempt (raise, unparsable text, text that parses)
\* escapes the batch generator or aborts the run: the run stops only at the
\* read or the write of the file, after every batch index was asked for and
\* answered and every answer was accumulated, and it is never stuck before.
C3_NoAbort ==
    /\ pc = "crashed" => found # Unread
    /\ RunOver =>
           /\ Len(requested) = CeilDiv(total_count, batch_limit)
           /\ Len(got) = Len(requested)
           /\ Len(all_main_dishes) = Sum(got)
    /\ pc \notin {"done", "crashed", "exit"} => ENABLED Next

C3_Witness ==
    /\ pc = "returned"
    /\ batch_num = 2
    /\ got = <<0, 0, 2>>
    /\ events = <<"raise", "sleep", "fail", "sleep", "ok">>

\* an attempt whose client invocation returned has just ended
AfterResponse ==
    /\ pc \in {"sleep3", "returned"}
    /\ events # <<>>
    /\ events[Len(events)] # "raise"

\* C4 (as claimed): when the response of an attempt parses as JSON, the call
\* returns exactly the parsed items array and invokes the client no more.
C4_ParsedReturned ==
    (AfterResponse /\ Parses(response_text)) =>
        /\ pc = "returned"
        /\ batch_main_dishes = GetItems(JsonLoads(response_text))

\* C4 (amended): when the response of an attempt parses as a JSON object, the
\* call returns exactly its items array (the empty array when the object has
\* no items key), short, exact or long, and invokes the client no more.
C4_ObjectReturned ==
    (AfterResponse /\ Parses(response_text) /\ HasGet(JsonLoads(response_text))) =>
        /\ pc = "returned"
        /\ events[Len(events)] = "ok"
        /\ batch_main_dishes = GetItems(JsonLoads(response_text))

C4_Witness ==
    /\ pc = "returned"
    /\ events = <<"ok">>
    /\ count >= 1
    /\ Len(batch_main_dishes) > count
    /\ response_text = <<[t |-> "obj", v |-> batch_main_dishes]>>

\* C5: the names passed to the batch generator are empty at the first batch,
\* the names passed before plus the names of the last result after a batch
\* that returned items (strictly more), and the names passed before after a
\* batch that returned nothing.
C5_ExclusionGrows ==
    [][(pc = "loop" /\ pc' = "attempt") =>
          IF batch_num = 0 THEN arg_names' = <<>>
          ELSE IF batch_main_dishes # <<>>
               THEN /\ arg_names' = arg_names \o NamesOf(batch_main_dishes)
                    /\ Len(arg_names') > Len(arg_names)
               ELSE arg_names' = arg_names]_vars

C5_Witness ==
    /\ pc = "attempt"
    /\ batch_num = 2
    /\ got = <<2, 0>>
    /\ arg_names = <<"a", "b">>

\* C6: the document written has the keys of the document found plus "simple",
\* and maps every key other than "simple" to the sequence it had.
C6_OtherKeysKept ==
    (pc = "done" /\ found.kind = "object") =>
        /\ DOMAIN output = DOMAIN found.doc \cup {"simple"}
        /\ \A k \in DOMAIN found.doc \ {"simple"} : output[k] = found.doc[k]

C6_Witness ==
    /\ pc = "done"
    /\ found = [kind |-> "object",
                doc |-> [k \in Keys |-> IF k = "omakase" THEN <<X>> ELSE <<>>]]
    /\ output = [k \in Keys |-> IF k = "omakase" THEN <<X>>
                                ELSE IF k = "simple" THEN <<Y>> ELSE <<>>]

\* C7 (as claimed): whenever the read of the existing file fails (missing,
\* unreadable, not valid JSON), main goes on from the document with every
\* known key empty.
C7_ReadFailureTolerated ==
    found.kind \in {"missing", "unreadable", "invalid"} =>
        /\ DOMAIN all_categories = Keys
        /\ \A k \in Keys \ {"simple"} : all_categories[k] = <<>>

\* C8 (as claimed): every count asked of the batch generator is at least 1.
C8_CountPositive == \A i \in 1..Len(requested) : requested[i] >= 1

\* C9 (as claimed): every batch result is no longer than the count asked, and
\* the accumulated sequence never holds more than total_count items.
C9_WithinRequested == NoneLong /\ Len(all_main_dishes) <= total_count

\* C9 (amended): as long as no batch returned more items than were asked of
\* it, the accumulated sequence holds at most total_count items.
C9_WithinWhenNotLong == NoneLong => Len(all_main_dishes) <= total_count

C9_Witness ==
    /\ pc = "done"
    /\ NoneLong
    /\ \E i \in 1..Len(got) : got[i] < requested[i]
    /\ Len(all_main_dishes) = total_count
    /\ Len(got) >= 2

\* C10: a run calls the batch generator exactly ceil(total_count / BATCH_SIZE)
\* times, whatever the batches return.
C10_BatchesIssued ==
    /\ Len(requested) <= CeilDiv(total_count, batch_limit)
    /\ RunOver => Len(requested) = CeilDiv(total_count, batch_limit)

C10_Witness ==
    /\ pc = "done"
    /\ total_count = 12 /\ batch_limit = 5
    /\ got = <<0, 6, 1>>
    /\ Len(requested) = 3

-----------------------------------------------------------------------------
(* Properties of the extraction *)

\* sep stands in text at index i
At(text, sep, i) ==
    i >= 1 /\ i + Len(sep) - 1 <= Len(text)
           /\ \A k \in 1..Len(sep) : text[i + k - 1] = sep[k]

\* sep occurs in text at or after index from
OccursFrom(text, sep, from) == \E i \in from..Len(text) : At(text, sep, i)

\* the least index at or after from where sep stands in text
FirstFrom(text, sep, from) ==
    CHOOSE i \in from..Len(text) :
        At(text, sep, i) /\ \A j \in from..(i - 1) : ~At(text, sep, j)

\* what stands between the first opening fence and the next fence after it,
\* or the end of the text when no fence follows
Inner(text, opening) ==
    LET start == FirstFrom(text, opening, 1) + Len(opening)
        stop == IF OccursFrom(text, Fence, start)
                THEN FirstFrom(text, Fence, start) - 1
                ELSE Len(text)
    IN SubSeq(text, start, stop)

\* out is text without its leading and trailing whitespace
TrimOf(out, text) ==
    \E i \in 1..(Len(text) + 1) : \E j \in (i - 1)..Len(text) :
        /\ out = SubSeq(text, i, j)
        /\ \A k \in 1..(i - 1) : text[k].t = "ws"
        /\ \A k \in (j + 1)..Len(text) : text[k].t = "ws"
        /\ out # <<>> => (out[1].t # "ws" /\ out[Len(out)].t # "ws")

\* C11: the extraction applied to its own result returns that result, and a
\* text without any fence is returned as it is.
C11_Idempotent ==
    /\ Len(ext_out) = 2 => ext_out[2] = ext_out[1]
    /\ (Len(ext_out) >= 1 /\ ~OccursFrom(ext_in, Fence, 1)) => ext_out[1] = ext_in

C11_Witness ==
    /\ ext_in = JsonFence \o WS \o <<Doc>> \o WS \o Fence
    /\ ext_out = << <<Doc>>, <<Doc>> >>

\* C12: a text with a fence tagged json gives the trimmed inside of the
\* first such block, also after an untagged block and without a closing
\* fence; otherwise a text with a fence gives the trimmed inside of the first
\* block; otherwise the text itself.  The extraction has a result for every
\* text.
C12_Precedence ==
    /\ Len(ext_out) >= 1 =>
          IF OccursFrom(ext_in, JsonFence, 1)
          THEN TrimOf(ext_out[1], Inner(ext_in, JsonFence))
          ELSE IF OccursFrom(ext_in, Fence, 1)
               THEN TrimOf(ext_out[1], Inner(ext_in, Fence))
               ELSE ext_out[1] = ext_in

\* no later tag json stands directly behind a fourth backtick
Apart(text) ==
    \A i \in 2..Len(text) :
        (At(text, JsonFence, i) /\ i > FirstFrom(text, JsonFence, 1))
            => text[i - 1].t # "tick"

\* the same precedence, for the texts where it is what the two splits give
C12_PrecedenceWhenApart ==
    (OccursFrom(ext_in, JsonFence, 1) => Apart(ext_in)) => C12_Precedence

C12_UntaggedFirst ==
    /\ ext_in = Fence \o Prose \o Fence \o JsonFence \o <<Doc>>
    /\ ext_out = << <<Doc>> >>

-----------------------------------------------------------------------------
(* Properties of the start of the process *)

\* C13: without the key in the environment the process has exited with
\* status 1 as soon as it has taken a step, and no batch was requested, the
\* client was not invoked, no file was read and none was written.
C13_FailFast ==
    OPENAI_API_KEY = "None" =>
        /\ pc \in {"startup", "exit"}
        /\ pc = "exit" => exit_code = "1"
        /\ pc = "startup" => exit_code = "running"
        /\ requested = <<>> /\ events = <<>> /\ got = <<>>
        /\ found = Unread
        /\ output = NoDocument

C13_Witness ==
    /\ OPENAI_API_KEY = "None"
    /\ pc = "exit"
    /\ exit_code = "1"
    /\ output = NoDocument

-----------------------------------------------------------------------------
(* Properties of the batch loop as a whole *)

\* the sequences of a sequence, one after the other
RECURSIVE Flatten(_)
Flatten(seqs) ==
    IF seqs = <<>> THEN <<>> ELSE Head(seqs) \o Flatten(Tail(seqs))

\* a call of the batch generator is under way or its result is being taken in
InFlight == pc \in {"attempt", "sleep3", "returned", "sleep1"}

\* the process has ended
Terminated == pc \in {"done", "crashed", "exit"}

\* C14: what the run has collected is the results of its batches one after
\* the other, in the order of the batches and of the items in them, with
\* nothing dropped, repeated, moved or merged; an empty result adds nothing.
C14_Concatenation ==
    /\ pc # "returned" => all_main_dishes = Flatten(batches_got)
    /\ pc = "returned" =>
          all_main_dishes \o batch_main_dishes = Flatten(batches_got)

C14_Witness ==
    /\ pc = "done"
    /\ batches_got = <<Arr(2), <<>>, Arr(1)>>
    /\ all_main_dishes = <<Dishes[1], Dishes[2], Dishes[1]>>

\* C15: the batch generator is called once for each batch index, also after
\* an empty result, so the client is invoked at most max_retries times the
\* number of batches, and the process comes to its end.
C15_OncePerBatch ==
    /\ [](/\ Len(requested) = batch_num + (IF InFlight THEN 1 ELSE 0)
          /\ Len(requested) <= CeilDiv(total_count, batch_limit)
          /\ client_calls <= max_retries * CeilDiv(total_count, batch_limit))
    /\ <>Terminated

C15_Witness ==
    /\ pc = "done"
    /\ got = <<0, 0>>
    /\ client_calls = max_retries * Len(requested)

\* C16: main has slept once for each batch whose result it has taken in, the
\* empty ones and the last one included, and never before the result of the
\* batch was there.
C16_OnePausePerBatch ==
    /\ pauses = Len(requested) - (IF InFlight THEN 1 ELSE 0)
    /\ pauses <= Len(got)
    /\ RunOver => pauses = CeilDiv(total_count, batch_limit)

C16_Witness ==
    /\ pc = "done"
    /\ got = <<1, 0>>
    /\ pauses = 2

-----------------------------------------------------------------------------
(* Properties of the merge *)

\* C20: in the written document the key "simple" holds the sequence the run
\* has collected and nothing of what the key held before, whatever the file
\* held and whatever the run collected, the empty sequence of a run without
\* any successful batch included.
C20_KeyReplaced ==
    pc = "done" =>
        /\ "simple" \in DOMAIN output
        /\ output["simple"] = all_main_dishes
        /\ all_categories["simple"] = all_main_dishes

C20_Witness ==
    /\ pc = "done"
    /\ found.kind = "object"
    /\ "simple" \in DOMAIN found.doc
    /\ found.doc["simple"] = <<Y, X>>
    /\ Sum(got) = 0
    /\ output["simple"] = <<>>

-----------------------------------------------------------------------------
(* Properties of the side-dish script *)

\* the prompt of the batch under way has been built
PromptBuilt == pc \in {"attempt", "sleep3", "returned"}

\* how many of the collected side dishes carry the method
Carrying(method) ==
    Cardinality({i \in 1..Len(all_main_dishes) :
                    MethodOf(all_main_dishes[i]) = method})

\* the RunAccumulator of the side-dish run
RunAccumulator == <<all_main_dishes, existing_names, existing_methods>>

\* C17: the names in the prompt of a batch are the last min(Window, n) of
\* the n names collected before it, in their order, so never more than
\* Window, while every name of every collected dish stays in existing_names.
C17_RecentWindow ==
    /\ Len(prompt_names) <= Window
    /\ existing_names = NamesOf(all_main_dishes)
    /\ PromptBuilt =>
          LET n == Len(existing_names)
              shown == Len(prompt_names)
          IN /\ shown = IF n < Window THEN n ELSE Window
             /\ \A k \in 1..shown : prompt_names[k] = existing_names[n - shown + k]

C17_Witness ==
    /\ pc = "attempt"
    /\ Len(existing_names) > Window
    /\ Len(prompt_names) = Window
    /\ prompt_names[1] = existing_names[Len(existing_names) - Window + 1]

\* C18 as stated: the method of every collected side dish has a count, and
\* the count is the number of collected side dishes with that method.
C18_EveryLabelCounted ==
    \A i \in 1..Len(all_main_dishes) :
        LET method == MethodOf(all_main_dishes[i])
        IN /\ method \in DOMAIN existing_methods
           /\ existing_methods[method] = Carrying(method)

\* C18: the count of each method of COOKING_METHODS is the number of
\* collected side dishes with that method, one for every item of every
\* batch taken in; a side dish with another method or none has no count.
C18_ListedLabelsCounted ==
    /\ DOMAIN existing_methods = COOKING_METHODS
    /\ \A method \in COOKING_METHODS : existing_methods[method] = Carrying(method)

C18_Witness ==
    /\ pc = "sleep1"
    /\ Len(got) = 2
    /\ Len(batch_main_dishes) = BATCH_SIZE
    /\ existing_methods["nimono"] > 2
    /\ existing_methods["sarada"] > 1
    /\ Carrying("guriru") > 0

\* C19: taking in an empty batch result changes nothing of the
\* RunAccumulator, and no other step than taking in a non-empty result
\* changes anything of it.
C19_EmptyBatchNoChange ==
    [][/\ (pc = "returned" /\ batch_main_dishes = <<>>)
            => RunAccumulator' = RunAccumulator
       /\ RunAccumulator' # RunAccumulator
            => (pc = "returned" /\ batch_main_dishes # <<>>)]_vars

C19_Witness ==
    /\ pc = "sleep1"
    /\ got = <<1, 0>>
    /\ batch_main_dishes = <<>>
    /\ all_main_dishes = SideArr(1)
    /\ existing_names = <<"a">>
    /\ existing_methods["nimono"] = 1

-----------------------------------------------------------------------------
(* Properties of the new document, the empty result and the counts *)

\* C21: when the file is not found, the written document has the four known
\* keys and no other, every key but "simple" is empty, and "simple" holds
\* what the run has collected.
C21_FreshDocument ==
    (pc = "done" /\ found.kind = "missing") =>
        /\ DOMAIN output = {"omakase", "hearty", "fishMain", "simple"}
        /\ \A k \in DOMAIN output \ {"simple"} : output[k] = <<>>
        /\ output["simple"] = all_main_dishes

C21_Witness ==
    /\ pc = "done"
    /\ found.kind = "missing"
    /\ DOMAIN output = Keys
    /\ output["simple"] = Arr(2)
    /\ output["omakase"] = <<>>

\* how many times the client was invoked in the generator call under way
Invocations == Cardinality({i \in 1..Len(events) : events[i] # "sleep"})

\* the generator call has returned the empty result to main
EmptyReturned == pc = "returned" /\ batch_main_dishes = <<>>

\* C22 (as claimed): a generator call that returns the empty result has
\* invoked the client exactly max_retries times.
C22_EmptyOnlyExhausted == EmptyReturned => Invocations = max_retries

\* C22 (amended): a generator call that returns the empty result either
\* has failed on each of max_retries invocations, or its last invocation
\* gave a response that parsed to an object with an empty or absent items
\* array, after at most max_retries invocations.
C22_EmptyExhaustedOrParsed ==
    EmptyReturned =>
        \/ /\ Invocations = max_retries
           /\ \A i \in 1..Len(events) : events[i] # "ok"
        \/ /\ Invocations \in 1..max_retries
           /\ events[Len(events)] = "ok"
           /\ Parses(response_text)
           /\ HasGet(JsonLoads(response_text))
           /\ GetItems(JsonLoads(response_text)) = <<>>

C22_Witness ==
    /\ EmptyReturned
    /\ events = <<"fail", "sleep", "raise", "sleep", "fail">>

\* the counts of the cooking methods added up
RECURSIVE SumOver(_, _)
SumOver(methods, labels) ==
    IF labels = {} THEN 0
    ELSE LET label == CHOOSE l \in labels : TRUE
         IN methods[label] + SumOver(methods, labels \ {label})

\* C23: existing_methods has the ten cooking methods of the list as its
\* keys and no other, every count is at least 0, the counts add up to no
\* more than the number of collected side dishes, and no step lowers a count.
C23_CountsWithinItems ==
    /\ [](/\ DOMAIN existing_methods = COOKING_METHODS
          /\ Cardinality(COOKING_METHODS) = 10
          /\ \A method \in COOKING_METHODS : existing_methods[method] >= 0
          /\ SumOver(existing_methods, COOKING_METHODS) <= Len(all_main_dishes))
    /\ [][\A method \in COOKING_METHODS :
             existing_methods'[method] >= existing_methods[method]]_vars

C23_Witness ==
    /\ pc = "sleep1"
    /\ Len(all_main_dishes) = BATCH_SIZE
    /\ SumOver(existing_methods, COOKING_METHODS) = 3
    /\ existing_methods["marine"] = 0

====
